---------------------------- MODULE Spec2Model ----------------------------
(***************************************************************************)
(* Caustics viewer (src/src/main.cpp): argument parsing, mesh load, the    *)
(* single Refract pass, SDL start-up, the initial projection and the event *)
(* loop that steps the receiver-plane distance, redraws, exports and quits.*)
(*                                                                         *)
(* Numbers.  receiverPlane is a C++ double.  Every value it takes here is  *)
(* an integer multiple of 2^-56 below 32 in magnitude, so a double is held *)
(* as the integer N of value N * 2^-56, split in two limbs                 *)
(*     N = hi * 2^30 + lo,   0 <= lo < 2^30,   hi of either sign           *)
(* because TLC's integers are 32 bits wide.  Addition is IEEE-754 binary64 *)
(* addition: the exact sum rounded to 53 significant bits, ties to even.   *)
(*                                                                         *)
(* ParseOBJ, Refract and CalculateIntersections are declared in refract.h, *)
(* which is not among the sources; they are modelled from the design text, *)
(* in fixed point with CoreScale units per 1.0.                            *)
(***************************************************************************)
EXTENDS Integers, Sequences, FiniteSets, TLC

(* ------------------------------ bounds --------------------------------- *)
\* events the environment delivers in one session
MaxEvents == 2

(* ----------------------- binary64 on the 2^-56 grid --------------------- *)
Two30 == 2^30

Dbl(h, l) == [hi |-> h, lo |-> l]

\* exact integer sum of two grid values
BigAdd(a, b) ==
  LET loSum == a.lo + b.lo
  IN  Dbl(a.hi + b.hi + (loSum \div Two30), loSum % Two30)

BigNeg(a) == IF a.lo = 0 THEN Dbl(-a.hi, 0) ELSE Dbl(-a.hi - 1, Two30 - a.lo)

BigIsNeg(a) == a.hi < 0

BigAbs(a) == IF BigIsNeg(a) THEN BigNeg(a) ELSE a

\* number of significant bits of n >= 0
BitLen(n) == IF n = 0 THEN 0 ELSE CHOOSE len \in 1..31 : n \div (2^(len - 1)) = 1

\* Round a non-negative grid value to 53 significant bits, ties to even.
\* guard is the bit just below the grid, sticky says that lower bits remain
\* (both FALSE when the exact value lies on the grid, as every sum does).
RoundMag(m, guard, sticky) ==
  LET len  == BitLen(m.hi)
      s    == IF len > 23 THEN len - 23 ELSE 0
      unit == 2^s
      q    == m.lo % unit
      kept == Dbl(m.hi, m.lo - q)
      odd  == ((m.lo \div unit) % 2) = 1
      more == guard \/ sticky
      up   == IF s = 0
                THEN guard /\ (sticky \/ odd)
                ELSE \/ 2 * q > unit
                     \/ (2 * q = unit /\ (more \/ odd))
  IN  IF up THEN BigAdd(kept, Dbl(0, unit)) ELSE kept

\* a grid value of either sign rounded to a double
DRound(exact) ==
  IF BigIsNeg(exact) THEN BigNeg(RoundMag(BigNeg(exact), FALSE, FALSE))
                     ELSE RoundMag(exact, FALSE, FALSE)

\* double + double
DAdd(a, b) == DRound(BigAdd(a, b))

\* double - double
DSub(a, b) == DAdd(a, BigNeg(b))

\* The double nearest to the decimal m / 10^k (m >= 0), as the compiler
\* converts a literal and as strtod converts a string: correctly rounded.
\* The 56 fraction bits are produced 14 at a time (c1..c4), then the guard
\* bit.  Exact for results on the grid: magnitude in [2^-4, 32), or dyadic.
DecToDouble(m, k) ==
  LET d     == 10^k
      whole == m \div d
      c1    == ((m % d) * (2^14)) \div d
      r1    == ((m % d) * (2^14)) % d
      c2    == (r1 * (2^14)) \div d
      r2    == (r1 * (2^14)) % d
      c3    == (r2 * (2^14)) \div d
      r3    == (r2 * (2^14)) % d
      c4    == (r3 * (2^14)) \div d
      r4    == (r3 * (2^14)) % d
      guard == 2 * r4 >= d
      rest  == IF guard THEN 2 * r4 - d ELSE 2 * r4
      n     == Dbl(whole * (2^26) + c1 * (2^12) + (c2 \div 4),
                   (c2 % 4) * (2^28) + c3 * (2^14) + c4)
  IN  RoundMag(n, guard, rest # 0)

(* ------------------------------ std::stod ------------------------------- *)
\* A string is a sequence of one-character strings.
DigitChars == <<"0", "1", "2", "3", "4", "5", "6", "7", "8", "9">>

IsDigit(c) == \E i \in 1..10 : DigitChars[i] = c

DigitVal(c) == (CHOOSE i \in 1..10 : DigitChars[i] = c) - 1

IsSpace(c) == c \in {" ", "\t", "\n", "\r"}

\* the character at position i, "" (the terminating NUL) past the end
CharAt(str, i) == IF i >= 1 /\ i <= Len(str) THEN str[i] ELSE ""

\* first position at or after i that holds no white space
SkipSpace(str, i) ==
  CHOOSE e \in i..(Len(str) + 1) :
    /\ \A j \in i..(e - 1) : IsSpace(str[j])
    /\ ~IsSpace(CharAt(str, e))

\* first position at or after i that holds no digit
DigitsEnd(str, i) ==
  CHOOSE e \in i..(Len(str) + 1) :
    /\ \A j \in i..(e - 1) : IsDigit(str[j])
    /\ ~IsDigit(CharAt(str, e))

\* value of the digits str[i..e-1]
RECURSIVE NumVal(_, _, _)
NumVal(str, i, e) ==
  IF e <= i THEN 0 ELSE 10 * NumVal(str, i, e - 1) + DigitVal(str[e - 1])

\* number of decimal digits of n > 0
NumDigits(n) == CHOOSE k \in 1..10 : n \div (10^(k - 1)) \in 1..9

\* std::stod(str): strtod's decimal grammar (white space, sign, digits with
\* an optional point, an optional exponent), converting the longest prefix
\* that fits it and ignoring what follows.  No digits at all: it throws
\* std::invalid_argument; a magnitude outside the double range (ERANGE):
\* std::out_of_range.  pos is the number of characters consumed.
\* (The hexadecimal, "inf" and "nan" forms are not modelled.)
stod(str) ==
  LET p0     == SkipSpace(str, 1)
      neg    == CharAt(str, p0) = "-"
      p1     == IF CharAt(str, p0) \in {"+", "-"} THEN p0 + 1 ELSE p0
      ie     == DigitsEnd(str, p1)
      hasPt  == CharAt(str, ie) = "."
      fe     == IF hasPt THEN DigitsEnd(str, ie + 1) ELSE ie
      nInt   == ie - p1
      nFrac  == IF hasPt THEN fe - ie - 1 ELSE 0
      mEnd   == IF hasPt THEN fe ELSE ie
      mant   == NumVal(str, p1, ie) * (10^nFrac)
                  + (IF hasPt THEN NumVal(str, ie + 1, fe) ELSE 0)
      hasE   == CharAt(str, mEnd) \in {"e", "E"}
      eNeg   == CharAt(str, mEnd + 1) = "-"
      ep     == IF CharAt(str, mEnd + 1) \in {"+", "-"} THEN mEnd + 2
                                                          ELSE mEnd + 1
      ee     == DigitsEnd(str, ep)
      expOk  == hasE /\ ee > ep
      exp10  == IF ~expOk THEN 0
                ELSE IF eNeg THEN -NumVal(str, ep, ee) ELSE NumVal(str, ep, ee)
      shift  == exp10 - nFrac
      order  == NumDigits(mant) + shift
      mag    == IF shift >= 0 THEN DecToDouble(mant * (10^shift), 0)
                              ELSE DecToDouble(mant, -shift)
  IN  IF nInt + nFrac = 0
        THEN [status |-> "invalid_argument", value |-> Dbl(0, 0), pos |-> 0]
      ELSE IF mant # 0 /\ (order > 309 \/ order < -307)
        THEN [status |-> "out_of_range", value |-> Dbl(0, 0), pos |-> 0]
      ELSE [status |-> "ok",
            value  |-> IF neg THEN BigNeg(mag) ELSE mag,
            pos    |-> (IF expOk THEN ee ELSE mEnd) - 1]

(* --------------- refract.h: the mesh loader and the core ---------------- *)
\* fixed-point units per 1.0 in the core's vectors
CoreScale == 2^9

\* the refractive index handed to Refract, ETA = EtaNum / EtaDen
EtaNum == 1457
EtaDen == 1000

\* a double on the 2^-56 grid in core units (floor)
ToCore(x) == x.hi \div (2^17)

\* quotient truncated toward zero (b > 0), as a C++ cast truncates
TruncDiv(a, b) == IF a >= 0 THEN a \div b ELSE -((-a) \div b)

\* integer square root, one result bit at a time from `bit` down
RECURSIVE SqrtFrom(_, _, _)
SqrtFrom(n, root, bit) ==
  IF bit = 0 THEN root
  ELSE IF (root + bit) * (root + bit) <= n
         THEN SqrtFrom(n, root + bit, bit \div 2)
         ELSE SqrtFrom(n, root, bit \div 2)

ISqrt(n) == SqrtFrom(n, 0, 4 * CoreScale)

\* ParseOBJ(path, &vertices, &normals): the arrays hold what was read when
\* the parse stopped; the result says whether the whole file was accepted.
ParseOBJ(file) == [ok |-> file.ok, vertices |-> file.v, normals |-> file.n]

\* One normal through the vector form of Snell's law.  The incident beam is
\* d = (0,0,-1), so cosTheta1 = -dot(n,d) = n.z.  An element without a
\* refracted ray (zero-length normal, normal facing away, total internal
\* reflection) is invalid and carries the zero direction.
RefractOne(n, etaNum, etaDen) ==
  LET len2  == n[1] * n[1] + n[2] * n[2] + n[3] * n[3]
      cos1  == n[3]
      one2  == CoreScale * CoreScale
      sin2  == ((((one2 - cos1 * cos1) * etaNum) \div etaDen) * etaNum) \div etaDen
      cos2  == ISqrt(one2 - sin2)
      coef  == ((etaNum * cos1) \div etaDen) - cos2
      raw   == << (coef * n[1]) \div CoreScale,
                  (coef * n[2]) \div CoreScale,
                  ((coef * n[3]) \div CoreScale) - ((etaNum * CoreScale) \div etaDen) >>
      rlen  == ISqrt(raw[1] * raw[1] + raw[2] * raw[2] + raw[3] * raw[3])
  IN  IF len2 = 0 \/ cos1 < 0 \/ sin2 > one2 \/ rlen = 0
        THEN [valid |-> FALSE, dir |-> <<0, 0, 0>>]
        ELSE [valid |-> TRUE,
              dir   |-> << TruncDiv(raw[1] * CoreScale, rlen),
                           TruncDiv(raw[2] * CoreScale, rlen),
                           TruncDiv(raw[3] * CoreScale, rlen) >>]

\* Refract(normals, &refracteds, eta): what the output vector holds
Refract(ns, etaNum, etaDen) ==
  [i \in 1..Len(ns) |-> RefractOne(ns[i], etaNum, etaDen).dir]

\* One vertex onto the plane z = dist: t = (D - v.z) / r.z, forward only
\* (t >= 0).  A ray parallel to the plane (r.z = 0, which includes the zero
\* direction of an invalid ray) or a plane behind the vertex gives an
\* absent point, which carries the zero coordinates.
ProjectOne(v, r, dist) ==
  LET num == dist - v[3]
      t   == TruncDiv(num * CoreScale * (IF r[3] < 0 THEN -1 ELSE 1),
                      IF r[3] < 0 THEN -r[3] ELSE r[3])
  IN  IF r[3] = 0 \/ num * r[3] < 0
        THEN [valid |-> FALSE, pt |-> <<0, 0>>]
        ELSE [valid |-> TRUE,
              pt    |-> << v[1] + TruncDiv(t * r[1], CoreScale),
                           v[2] + TruncDiv(t * r[2], CoreScale) >>]

\* the per-element result of the projection, validity included
ProjectAll(vs, rs, d) ==
  [i \in 1..Len(vs) |->
     IF i <= Len(rs) THEN ProjectOne(vs[i], rs[i], ToCore(d))
                     ELSE [valid |-> FALSE, pt |-> <<0, 0>>]]

\* CalculateIntersections(vertices, refracteds, &intersections, distance):
\* what the output vector of 2-D points holds afterwards (a full pass that
\* replaces its former content)
CalculateIntersections(vs, rs, d) ==
  [i \in 1..Len(vs) |-> ProjectAll(vs, rs, d)[i].pt]

(* ------------------------------- inputs --------------------------------- *)
\* argv[2] candidates
DistanceArgs ==
  { <<"-", "4">>,
    <<"1", "0", "a", "b", "c">>,
    <<"a", "b", "c">>, <<"1", "e", "9", "9", "9">>, <<>> }

Vec3(x, y, z) == <<x * CoreScale, y * CoreScale, z * CoreScale>>

\* what ParseOBJ finds behind argv[1]: two complete meshes, a file cut off
\* after its second vertex, and a missing file
ObjFiles ==
  { [ok |-> TRUE,
     v  |-> << Vec3(10, 20, 0), Vec3(100, 50, 1), Vec3(-2, 300, 0) >>,
     n  |-> << Vec3(0, 0, 1), <<307, 0, 410>>, Vec3(0, 0, 1) >>],
    [ok |-> TRUE,
     v  |-> << Vec3(5, 6, 0), Vec3(7, 9, 0) >>,
     n  |-> << Vec3(0, 0, 1), Vec3(1, 0, 0) >>],
    [ok |-> FALSE,
     v  |-> << Vec3(10, 20, 0), Vec3(100, 50, 1) >>,
     n  |-> << Vec3(0, 0, 1) >>],
    [ok |-> FALSE, v |-> <<>>, n |-> <<>>] }

\* what a conversion of an out-of-range double to Uint8 (undefined
\* behaviour) yields: the low byte of the truncated value (x86 cvttsd2si),
\* or the nearest end of the range (a saturating convert)
CastModes == {"wrap", "saturate"}

\* sizes a resize reports
ResizeTo == { <<512, 384>> }

(* ------------------------------- state ---------------------------------- *)
VARIABLES
  argc, argv2, objFile, castMode,   \* the session's inputs
  pc,                               \* where main is
  exitStatus,                       \* main's return value, "none" before
  receiverPlane,
  vertices, normals, refracteds, intersections,
  windowWidth, windowHeight,
  sdlUp, window, renderer,          \* SDL resources: "none", "open", "gone"
  quit,
  framesCount,                      \* "zero" or "positive": only that much
                                    \* of the frame counter is kept
  title,
  delivered,                        \* events polled so far
  log                               \* every observable operation, in order

vars == << argc, argv2, objFile, castMode, pc, exitStatus, receiverPlane,
           vertices, normals, refracteds, intersections, windowWidth,
           windowHeight, sdlUp, window, renderer, quit, framesCount, title,
           delivered, log >>

inputs == << argc, argv2, objFile, castMode >>
mesh   == << vertices, normals, refracteds >>
sdl    == << sdlUp, window, renderer >>
size   == << windowWidth, windowHeight >>
fps    == << framesCount, title >>

Init ==
  /\ argc \in {2, 3}
  /\ argv2 \in DistanceArgs
  /\ (argc < 3 => argv2 = <<>>)
  /\ objFile \in ObjFiles
  /\ castMode \in CastModes
  /\ pc = "args"
  /\ exitStatus = "none"
  /\ receiverPlane = Dbl(0, 0)
  /\ vertices = <<>> /\ normals = <<>> /\ refracteds = <<>>
  /\ intersections = <<>>
  /\ windowWidth = 256 /\ windowHeight = 256
  /\ sdlUp = FALSE /\ window = "none" /\ renderer = "none"
  /\ quit = FALSE
  /\ framesCount = "zero" /\ title = "none"
  /\ delivered = 0
  /\ log = <<>>

(* --------------------------- presentation ------------------------------- *)
\* static_cast<Uint8>(v) of a double already truncated to the integer t
CastU8(t) ==
  IF t >= 0 /\ t <= 255 THEN t
  ELSE IF castMode = "wrap" THEN t % 256
  ELSE IF t < 0 THEN 0 ELSE 255

\* the value (c / 256.0) * 255.0 truncated, c in core units
Channel(c) == TruncDiv(c * 255, 256 * CoreScale)

\* DrawIntersections(renderer, intersections) with the globals windowWidth
\* = w and windowHeight = h: the colour and the position of the point drawn
\* for every element of the vector
DrawIntersections(pts, w, h) ==
  [i \in 1..Len(pts) |->
     [rgb |-> << CastU8(Channel(pts[i][1])),
                 CastU8(Channel(pts[i][2])),
                 CastU8(((i - 1) * 255) \div Len(pts)) >>,
      at  |-> << (pts[i][1] * w) \div 256, (pts[i][2] * h) \div 256 >>]]

\* SaveCausticsPPM: the pixels set white in the 256 x 256 image
SaveCausticsPPM(pts) ==
  { << TruncDiv(pts[i][1], CoreScale), TruncDiv(pts[i][2], CoreScale) >> :
      i \in { j \in 1..Len(pts) :
                /\ TruncDiv(pts[j][1], CoreScale) \in 0..255
                /\ TruncDiv(pts[j][2], CoreScale) \in 0..255 } }

(* ---------------------- the log of operations --------------------------- *)
\* dist in a Draw or Save entry is the receiver-plane distance at that time
DrawEntry(pts, d, w, h) ==
  [op |-> "Draw", pts |-> pts, dist |-> d, w |-> w, h |-> h,
   out |-> DrawIntersections(pts, w, h)]

SaveEntry(pts, d, opened) ==
  [op |-> "Save", pts |-> pts, dist |-> d, written |-> opened,
   out |-> SaveCausticsPPM(pts)]

ProjectEntry(vs, dirs, d, result) ==
  [op |-> "Project", vs |-> vs, dirs |-> dirs, dist |-> d, out |-> result]

RefractEntry(ns, result) == [op |-> "Refract", ns |-> ns, out |-> result]

EventEntry(type, detail) == [op |-> "Event", type |-> type, detail |-> detail]

ReleaseEntry(what) == [op |-> "Release", what |-> what]

PrintEntry(d) == [op |-> "Print", dist |-> d]

ErrorEntry(what) == [op |-> "Error", what |-> what]

(* ------------------------------ start-up -------------------------------- *)
Exit(status) == pc' = "exit" /\ exitStatus' = status

\* lines 112-132: the usage check and std::stod(argv[2])
ParseArgs ==
  /\ pc = "args"
  /\ IF argc < 3
       THEN /\ Exit("EXIT_FAILURE")
            /\ log' = Append(log, ErrorEntry("usage"))
            /\ UNCHANGED receiverPlane
       ELSE IF stod(argv2).status # "ok"
       THEN /\ Exit("EXIT_FAILURE")
            /\ log' = Append(log, ErrorEntry(stod(argv2).status))
            /\ UNCHANGED receiverPlane
       ELSE /\ receiverPlane' = stod(argv2).value
            /\ pc' = "load"
            /\ UNCHANGED << exitStatus, log >>
  /\ UNCHANGED << inputs, mesh, intersections, size, sdl, quit, fps, delivered >>

\* LoadMesh with the result of ParseOBJ ignored
LoadMesh_IgnoresFailure ==
  /\ pc = "load"
  /\ vertices' = ParseOBJ(objFile).vertices
  /\ normals' = ParseOBJ(objFile).normals
  /\ pc' = "refract"
  /\ UNCHANGED << inputs, exitStatus, log, receiverPlane, refracteds,
                  intersections, size, sdl, quit, fps, delivered >>

\* lines 134-144: ParseOBJ fills the arrays; a failure ends the program
LoadMesh ==
  /\ pc = "load"
  /\ vertices' = ParseOBJ(objFile).vertices
  /\ normals' = ParseOBJ(objFile).normals
  /\ IF ~ParseOBJ(objFile).ok
       THEN /\ Exit("EXIT_FAILURE")
            /\ log' = Append(log, ErrorEntry("ParseOBJ"))
       ELSE /\ pc' = "refract"
            /\ UNCHANGED << exitStatus, log >>
  /\ UNCHANGED << inputs, receiverPlane, refracteds, intersections, size, sdl,
                  quit, fps, delivered >>

\* lines 146-148
RefractStep ==
  /\ pc = "refract"
  /\ refracteds' = Refract(normals, EtaNum, EtaDen)
  /\ log' = Append(log, RefractEntry(normals, refracteds'))
  /\ pc' = "sdl"
  /\ UNCHANGED << inputs, exitStatus, receiverPlane, vertices, normals,
                  intersections, size, sdl, quit, fps, delivered >>

\* lines 150-155: SDL_Init; on failure main returns without SDL_Quit
SdlInit(ok) ==
  /\ pc = "sdl"
  /\ IF ok
       THEN /\ sdlUp' = TRUE
            /\ pc' = "window"
            /\ UNCHANGED << exitStatus, log >>
       ELSE /\ Exit("EXIT_FAILURE")
            /\ log' = Append(log, ErrorEntry("SDL_Init"))
            /\ UNCHANGED sdlUp
  /\ UNCHANGED << inputs, receiverPlane, mesh, intersections, size, window,
                  renderer, quit, fps, delivered >>

\* lines 157-169: SDL_CreateWindow; on failure SDL_Quit
CreateWindow(ok) ==
  /\ pc = "window"
  /\ IF ok
       THEN /\ window' = "open"
            /\ title' = "Caustics Simulation"
            /\ pc' = "renderer"
            /\ UNCHANGED << exitStatus, log, sdlUp >>
       ELSE /\ sdlUp' = FALSE
            /\ log' = log \o << ErrorEntry("SDL_CreateWindow"),
                                ReleaseEntry("SDL_Quit") >>
            /\ Exit("EXIT_FAILURE")
            /\ UNCHANGED << window, title >>
  /\ UNCHANGED << inputs, receiverPlane, mesh, intersections, size, renderer,
                  quit, framesCount, delivered >>

\* lines 171-180: SDL_CreateRenderer; on failure the window, then SDL_Quit
CreateRenderer(ok) ==
  /\ pc = "renderer"
  /\ IF ok
       THEN /\ renderer' = "open"
            /\ pc' = "project"
            /\ UNCHANGED << exitStatus, log, sdlUp, window >>
       ELSE /\ window' = "gone"
            /\ sdlUp' = FALSE
            /\ log' = log \o << ErrorEntry("SDL_CreateRenderer"),
                                ReleaseEntry("SDL_DestroyWindow"),
                                ReleaseEntry("SDL_Quit") >>
            /\ Exit("EXIT_FAILURE")
            /\ UNCHANGED renderer
  /\ UNCHANGED << inputs, receiverPlane, mesh, intersections, size, quit, fps,
                  delivered >>

\* ProjectAndDraw with the new points added behind the old content of the
\* output vector
ProjectAndDraw_Appends(d, before) ==
  /\ intersections' =
       intersections \o CalculateIntersections(vertices, refracteds, d)
  /\ log' = log \o before \o
              << ProjectEntry(vertices, refracteds, d, intersections'),
                 DrawEntry(intersections', d, windowWidth, windowHeight) >>

\* one CalculateIntersections call followed by DrawIntersections, as at
\* lines 184-185 and in each of the four stepping cases
ProjectAndDraw(d, before) ==
  /\ intersections' = CalculateIntersections(vertices, refracteds, d)
  /\ log' = log \o before \o
              << ProjectEntry(vertices, refracteds, d, intersections'),
                 DrawEntry(intersections', d, windowWidth, windowHeight) >>

\* lines 182-192: the initial projection and draw, then the loop's locals
InitialProjection ==
  /\ pc = "project"
  /\ ProjectAndDraw(receiverPlane, <<>>)
  /\ quit' = FALSE
  /\ framesCount' = "zero"
  /\ pc' = "loop"
  /\ UNCHANGED << inputs, exitStatus, receiverPlane, mesh, size, sdl, title,
                  delivered >>

(* ----------------------------- event loop ------------------------------- *)
\* lines 215-216
smallStep == DecToDouble(1, 1)
bigStep   == DecToDouble(1, 0)

\* SDL_PollEvent returned 1 (line 195): one more event is being handled
Polled ==
  /\ pc = "loop"
  /\ delivered < MaxEvents
  /\ delivered' = delivered + 1
  /\ pc' = "loop"
  /\ UNCHANGED << inputs, exitStatus, mesh, sdl, fps >>

\* a stepping case: the distance is updated, then projected and drawn
StepTo(sym, d) ==
  /\ Polled
  /\ receiverPlane' = d
  /\ ProjectAndDraw(d, << EventEntry("KEYDOWN", sym) >>)
  /\ UNCHANGED << size, quit >>

\* KeyW handing the normals, not the refracted directions, to the projection
KeyW_UsesNormals ==
  /\ Polled
  /\ receiverPlane' = DAdd(receiverPlane, smallStep)
  /\ intersections' = CalculateIntersections(vertices, normals, receiverPlane')
  /\ log' = log \o
       << EventEntry("KEYDOWN", "w"),
          ProjectEntry(vertices, normals, receiverPlane', intersections'),
          DrawEntry(intersections', receiverPlane', windowWidth, windowHeight) >>
  /\ UNCHANGED << size, quit >>

\* lines 220-224
KeyW == StepTo("w", DAdd(receiverPlane, smallStep))

\* KeyS with the projection done before the distance is updated
KeyS_Stale ==
  /\ Polled
  /\ receiverPlane' = DSub(receiverPlane, smallStep)
  /\ intersections' = CalculateIntersections(vertices, refracteds, receiverPlane)
  /\ log' = log \o
       << EventEntry("KEYDOWN", "s"),
          ProjectEntry(vertices, refracteds, receiverPlane, intersections'),
          DrawEntry(intersections', receiverPlane', windowWidth, windowHeight) >>
  /\ UNCHANGED << size, quit >>

\* lines 225-229
KeyS == StepTo("s", DSub(receiverPlane, smallStep))

\* KeyE running Refract again before it projects
KeyE_Rerefract ==
  /\ pc = "loop"
  /\ delivered < MaxEvents
  /\ delivered' = delivered + 1
  /\ pc' = "loop"
  /\ receiverPlane' = DAdd(receiverPlane, bigStep)
  /\ refracteds' = Refract(normals, EtaNum, EtaDen)
  /\ intersections' = CalculateIntersections(vertices, refracteds', receiverPlane')
  /\ log' = log \o
       << EventEntry("KEYDOWN", "e"),
          RefractEntry(normals, refracteds'),
          ProjectEntry(vertices, refracteds', receiverPlane', intersections'),
          DrawEntry(intersections', receiverPlane', windowWidth, windowHeight) >>
  /\ UNCHANGED << inputs, exitStatus, vertices, normals, sdl, fps, size, quit >>

\* lines 230-234
KeyE == StepTo("e", DAdd(receiverPlane, bigStep))

\* KeyD adding the step it should subtract
KeyD_Adds == StepTo("d", DAdd(receiverPlane, bigStep))

\* lines 235-239
KeyD == StepTo("d", DSub(receiverPlane, bigStep))

\* KeyQ ending the loop as well
KeyQ_Quits ==
  /\ Polled
  /\ quit' = TRUE
  /\ log' = log \o << EventEntry("KEYDOWN", "q"), PrintEntry(receiverPlane) >>
  /\ UNCHANGED << receiverPlane, intersections, size >>

\* lines 240-243: prints the distance
KeyQ ==
  /\ Polled
  /\ log' = log \o << EventEntry("KEYDOWN", "q"), PrintEntry(receiverPlane) >>
  /\ UNCHANGED << receiverPlane, intersections, size, quit >>

\* lines 244-247: the export; the file may fail to open (lines 90-95)
KeyP(opened) ==
  /\ Polled
  /\ log' = log \o << EventEntry("KEYDOWN", "p"),
                      SaveEntry(intersections, receiverPlane, opened) >>
  /\ UNCHANGED << receiverPlane, intersections, size, quit >>

\* lines 248-250
KeyEscape ==
  /\ Polled
  /\ quit' = TRUE
  /\ log' = Append(log, EventEntry("KEYDOWN", "ESCAPE"))
  /\ UNCHANGED << receiverPlane, intersections, size >>

\* lines 251-252: any other key
KeyOther ==
  /\ Polled
  /\ log' = Append(log, EventEntry("KEYDOWN", "x"))
  /\ UNCHANGED << receiverPlane, intersections, size, quit >>

\* lines 199-201
QuitEvent ==
  /\ Polled
  /\ quit' = TRUE
  /\ log' = Append(log, EventEntry("QUIT", ""))
  /\ UNCHANGED << receiverPlane, intersections, size >>

\* lines 203-210, a resize: the new size, then a redraw
WindowResized(sz) ==
  /\ Polled
  /\ windowWidth' = sz[1]
  /\ windowHeight' = sz[2]
  /\ log' = log \o << EventEntry("WINDOWEVENT", "RESIZED"),
                      DrawEntry(intersections, receiverPlane, sz[1], sz[2]) >>
  /\ UNCHANGED << receiverPlane, intersections, quit >>

\* lines 203-210, any other window event
WindowOther ==
  /\ Polled
  /\ log' = Append(log, EventEntry("WINDOWEVENT", "EXPOSED"))
  /\ UNCHANGED << receiverPlane, intersections, size, quit >>

\* lines 257-258: any other event type
OtherEvent ==
  /\ Polled
  /\ log' = Append(log, EventEntry("MOUSEMOTION", ""))
  /\ UNCHANGED << receiverPlane, intersections, size, quit >>

\* SDL_PollEvent returned 0: lines 262-277 (the frame count, and the title
\* once a second has passed), then the test of while(!quit) at line 193
Frame(elapsed) ==
  /\ pc = "loop"
  /\ IF elapsed
       THEN framesCount' = "zero" /\ title' = "Caustics Simulation - FPS"
       ELSE framesCount' = "positive" /\ UNCHANGED title
  /\ pc' = IF quit THEN "cleanup" ELSE "loop"
  /\ UNCHANGED << inputs, exitStatus, receiverPlane, mesh, intersections, size,
                  sdl, quit, delivered, log >>

\* lines 284-289
Cleanup ==
  /\ pc = "cleanup"
  /\ renderer' = "gone"
  /\ window' = "gone"
  /\ sdlUp' = FALSE
  /\ log' = log \o << ReleaseEntry("SDL_DestroyRenderer"),
                      ReleaseEntry("SDL_DestroyWindow"),
                      ReleaseEntry("SDL_Quit") >>
  /\ Exit("EXIT_SUCCESS")
  /\ UNCHANGED << inputs, receiverPlane, mesh, intersections, size, quit, fps,
                  delivered >>

Next ==
  \/ ParseArgs
  \/ LoadMesh
  \/ RefractStep
  \/ \E ok \in BOOLEAN : SdlInit(ok)
  \/ \E ok \in BOOLEAN : CreateWindow(ok)
  \/ \E ok \in BOOLEAN : CreateRenderer(ok)
  \/ InitialProjection
  \/ KeyW \/ KeyS \/ KeyE \/ KeyD
  \/ KeyQ
  \/ \E opened \in BOOLEAN : KeyP(opened)
  \/ KeyEscape
  \/ KeyOther
  \/ QuitEvent
  \/ \E sz \in ResizeTo : WindowResized(sz)
  \/ WindowOther
  \/ OtherEvent
  \/ \E elapsed \in BOOLEAN : Frame(elapsed)
  \/ Cleanup

Spec == Init /\ [][Next]_vars

(* ----------------------- properties of the session ---------------------- *)
Ops(op) == { i \in DOMAIN log : log[i].op = op }

IsStepKey(i) ==
  /\ log[i].op = "Event"
  /\ log[i].type = "KEYDOWN"
  /\ log[i].detail \in {"w", "s", "e", "d"}

IsQuitEvent(i) ==
  /\ log[i].op = "Event"
  /\ \/ log[i].type = "QUIT"
     \/ (log[i].type = "KEYDOWN" /\ log[i].detail = "ESCAPE")

KeyCount(sym) ==
  Cardinality({ i \in DOMAIN log : /\ log[i].op = "Event"
                                   /\ log[i].type = "KEYDOWN"
                                   /\ log[i].detail = sym })

\* the latest Project entry before position k (0 if none)
RECURSIVE LastProject(_)
LastProject(k) ==
  IF k <= 1 THEN 0
  ELSE IF log[k - 1].op = "Project" THEN k - 1
  ELSE LastProject(k - 1)

\* the initial projection's entry
FirstProject ==
  CHOOSE i \in Ops("Project") : \A j \in Ops("Project") : i <= j

\* the distance main starts from
StartDist == stod(argv2).value

\* the loop has been entered (the initial projection is done)
InLoopOrAfter ==
  pc \in {"loop", "cleanup"} \/ (pc = "exit" /\ exitStatus = "EXIT_SUCCESS")

\* the distance a stepping key makes of d
StepFrom(sym, d) ==
  CASE sym = "w" -> DAdd(d, smallStep)
    [] sym = "s" -> DSub(d, smallStep)
    [] sym = "e" -> DAdd(d, bigStep)
    [] sym = "d" -> DSub(d, bigStep)

(* C1: Refract runs at most once in a session, only after ParseOBJ has      *)
(* succeeded and on the loaded normals, exactly once by the time main is    *)
(* past it, always before any projection; its output is what refracteds     *)
(* holds ever after and what every CalculateIntersections call receives.    *)
C1_RefractOnce ==
  /\ Cardinality(Ops("Refract")) <= 1
  /\ (pc \in {"sdl", "window", "renderer", "project", "loop", "cleanup"}
        => Cardinality(Ops("Refract")) = 1)
  /\ \A i \in Ops("Refract") :
       /\ ParseOBJ(objFile).ok
       /\ log[i].ns = ParseOBJ(objFile).normals
       /\ refracteds = log[i].out
  /\ \A k \in Ops("Project") :
       \E i \in Ops("Refract") : i < k /\ log[k].dirs = log[i].out

\* two projections at different distances, both fed by the one Refract pass
C1_Witness ==
  /\ Cardinality(Ops("Refract")) = 1
  /\ \E j, k \in Ops("Project") : j < k /\ log[j].dist # log[k].dist

(* C2: CalculateIntersections runs once for the initial load and once per   *)
(* w/s/e/d key, right after the key with the updated distance and right     *)
(* before the draw; no other event runs it.  At every draw and export the   *)
(* points in use are those computed for the distance current at that time.  *)
C2_ProjectPerDistanceChange ==
  /\ Cardinality(Ops("Project")) =
       (IF InLoopOrAfter THEN 1 ELSE 0)
         + Cardinality({ i \in DOMAIN log : IsStepKey(i) })
  /\ \A i \in DOMAIN log : IsStepKey(i) =>
       /\ i + 2 <= Len(log)
       /\ LastProject(i) > 0
       /\ log[i + 1].op = "Project"
       /\ log[i + 1].dist = StepFrom(log[i].detail, log[LastProject(i)].dist)
       /\ log[i + 2].op = "Draw"
  /\ \A k \in Ops("Project") :
       \/ (Ops("Event") \cup Ops("Project")) \cap 1..(k - 1) = {}
       \/ IsStepKey(k - 1)
  /\ \A k \in Ops("Draw") \cup Ops("Save") :
       /\ LastProject(k) > 0
       /\ log[k].pts = log[LastProject(k)].out
       /\ log[k].dist = log[LastProject(k)].dist
       /\ log[k].pts = CalculateIntersections(vertices, refracteds, log[k].dist)
  /\ (InLoopOrAfter => receiverPlane = log[LastProject(Len(log) + 1)].dist)

\* an export or a resize redraw after a step changed the point set
C2_Witness ==
  \E i \in DOMAIN log : \E k \in Ops("Draw") \cup Ops("Save") :
    /\ IsStepKey(i)
    /\ k > i + 2
    /\ log[k].pts # log[FirstProject].out

\* the whole argument is a number in the range of double
NumericInRange(str) == stod(str).status = "ok" /\ stod(str).pos = Len(str)

(* C3: a distance argument that is not a number, or is out of range, stops  *)
(* start-up: an error is reported, main returns EXIT_FAILURE, and no mesh   *)
(* is loaded, nothing is refracted, projected or drawn, SDL is not started. *)
C3_BadDistanceAborts ==
  (argc >= 3 /\ ~NumericInRange(argv2)) =>
    /\ pc \in {"args", "exit"}
    /\ (pc = "exit" => exitStatus = "EXIT_FAILURE" /\ log # <<>>)
    /\ \A i \in DOMAIN log : log[i].op = "Error"
    /\ vertices = <<>> /\ normals = <<>> /\ refracteds = <<>>
    /\ intersections = <<>>
    /\ ~sdlUp /\ window = "none" /\ renderer = "none"

(* C4: when ParseOBJ fails main returns EXIT_FAILURE at once: whatever the  *)
(* arrays hold is never refracted or projected, nothing is drawn, SDL is    *)
(* not started and no window is created.                                    *)
C4_ParseFailureFatal ==
  ~ParseOBJ(objFile).ok =>
    /\ pc \in {"args", "load", "exit"}
    /\ (pc = "exit" => exitStatus = "EXIT_FAILURE")
    /\ Ops("Refract") \cup Ops("Project") \cup Ops("Draw") \cup Ops("Save") = {}
    /\ refracteds = <<>> /\ intersections = <<>>
    /\ ~sdlUp /\ window = "none" /\ renderer = "none"

\* main has returned after ParseOBJ failed on a file it had partly read
C4_Witness ==
  /\ pc = "exit"
  /\ ~ParseOBJ(objFile).ok
  /\ vertices # <<>>
  /\ Len(vertices) # Len(normals)
  /\ log # <<>> /\ log[Len(log)] = ErrorEntry("ParseOBJ")

C6_AbsentNeverShown ==
  /\ \A k \in Ops("Draw") : \A i \in DOMAIN log[k].out :
       ProjectAll(vertices, refracteds, log[k].dist)[i].valid
  /\ \A k \in Ops("Save") : \A px \in log[k].out :
       \E i \in DOMAIN log[k].pts :
         /\ ProjectAll(vertices, refracteds, log[k].dist)[i].valid
         /\ px = << TruncDiv(log[k].pts[i][1], CoreScale),
                    TruncDiv(log[k].pts[i][2], CoreScale) >>

RECURSIVE BigTimes(_, _)
BigTimes(a, k) ==
  IF k = 0 THEN Dbl(0, 0)
  ELSE IF k < 0 THEN BigNeg(BigTimes(a, -k))
  ELSE BigAdd(a, BigTimes(a, k - 1))

\* the double product of a double and a small whole number
DMulInt(a, k) == DRound(BigTimes(a, k))

\* the distance after the first k log entries: the start value with every
\* stepping key applied in order, each by one rounded double addition
RECURSIVE DistAfter(_)
DistAfter(k) ==
  IF k = 0 THEN StartDist
  ELSE LET prev == DistAfter(k - 1)
       IN  IF IsStepKey(k) THEN StepFrom(log[k].detail, prev) ELSE prev

\* the window size after the log's resize events
SizeAfter ==
  IF \E i \in Ops("Draw") : log[i - 1].op = "Event" /\ log[i - 1].detail = "RESIZED"
    THEN LET last == CHOOSE i \in Ops("Draw") :
                       /\ log[i - 1].op = "Event" /\ log[i - 1].detail = "RESIZED"
                       /\ \A j \in Ops("Draw") :
                            (log[j - 1].op = "Event" /\ log[j - 1].detail = "RESIZED")
                              => j <= i
         IN  << log[last].w, log[last].h >>
    ELSE << 256, 256 >>

NetSmall == KeyCount("w") - KeyCount("s")
NetBig   == KeyCount("e") - KeyCount("d")

\* startup + 0.1 * (#w - #s) + 1.0 * (#e - #d), evaluated in doubles
ClosedForm ==
  DAdd(StartDist, DAdd(DMulInt(smallStep, NetSmall), DMulInt(bigStep, NetBig)))

\* the same sum without any rounding
ExactForm ==
  BigAdd(StartDist, BigAdd(BigTimes(smallStep, NetSmall), BigTimes(bigStep, NetBig)))

\* main got a distance from argv[2]
HasDistance == argc >= 3 /\ stod(argv2).status = "ok" /\ pc # "args"

(* C8 as stated: after any event sequence the distance equals the startup   *)
(* value plus 0.1 * (#w - #s) + 1.0 * (#e - #d).                            *)
C8_ClosedForm == HasDistance => receiverPlane = ClosedForm

(* C8 as amended: the distance is the startup value with each w/s/e/d step  *)
(* added or subtracted in event order by a rounded double addition, so it   *)
(* is within 2^-49 per step of the closed form, not equal to it; no other   *)
(* event changes it; the window size is 256 x 256 until a resize and then   *)
(* the size of the latest resize, which changes nothing else.               *)
C8_DistanceSteps ==
  /\ (HasDistance =>
        /\ receiverPlane = DistAfter(Len(log))
        /\ LET err == BigAbs(BigAdd(receiverPlane, BigNeg(ExactForm)))
           IN  /\ err.hi = 0
               /\ err.lo <= (2^7) * Cardinality({ i \in DOMAIN log : IsStepKey(i) }))
  /\ << windowWidth, windowHeight >> = SizeAfter
  /\ \A i \in Ops("Draw") :
       (log[i - 1].op = "Event" /\ log[i - 1].detail = "RESIZED") =>
         /\ log[i].dist = DistAfter(i)
         /\ log[i].pts = log[LastProject(i)].out

\* every step has been undone by its opposite, yet the distance is not the
\* startup value
C8_Witness ==
  /\ HasDistance
  /\ NetSmall = 0 /\ NetBig = 0
  /\ receiverPlane # StartDist

\* the nearest value of 0..255
Clamp(u) == IF u < 0 THEN 0 ELSE IF u > 255 THEN 255 ELSE u

(* C9: every colour component DrawIntersections computes is clamped to      *)
(* [0,255]: a coordinate below 0 gives 0, one of 256 or more gives 255.     *)
C9_ColoursClamped ==
  \A k \in Ops("Draw") : \A i \in DOMAIN log[k].out :
    log[k].out[i].rgb =
      << Clamp(Channel(log[k].pts[i][1])),
         Clamp(Channel(log[k].pts[i][2])),
         Clamp(((i - 1) * 255) \div Len(log[k].pts)) >>

\* the release calls made so far, in order
Releases ==
  LET rel == SelectSeq(log, LAMBDA entry : entry.op = "Release")
  IN  [i \in DOMAIN rel |-> rel[i].what]

\* the release calls owed for what had been created when main returned
ExpectedReleases ==
  IF exitStatus = "EXIT_SUCCESS"
    THEN << "SDL_DestroyRenderer", "SDL_DestroyWindow", "SDL_Quit" >>
  ELSE IF ErrorEntry("SDL_CreateRenderer") \in { log[i] : i \in DOMAIN log }
    THEN << "SDL_DestroyWindow", "SDL_Quit" >>
  ELSE IF ErrorEntry("SDL_CreateWindow") \in { log[i] : i \in DOMAIN log }
    THEN << "SDL_Quit" >>
  ELSE <<>>

C10_State ==
  /\ (quit => \E i \in DOMAIN log : IsQuitEvent(i))
  /\ ((pc = "cleanup" \/ exitStatus = "EXIT_SUCCESS") => quit)
  /\ (pc # "exit" => Releases = <<>>)
  /\ (pc = "exit" =>
        /\ Releases = ExpectedReleases
        /\ ~sdlUp /\ window # "open" /\ renderer # "open")
  /\ \A i \in Ops("Release") : \A j \in DOMAIN log :
       j > i => log[j].op = "Release"

(* C10: the loop is left only after a window-close event or an Escape key,  *)
(* and is left at the first empty poll once one was handled; whenever main  *)
(* returns after SDL_Init succeeded, what was created has been released     *)
(* once, renderer, then window, then SDL_Quit, and nothing is projected,    *)
(* drawn or exported after a release.                                       *)
C10_LoopExitAndRelease ==
  /\ []C10_State
  /\ [][(pc = "loop" /\ delivered' = delivered)
          => ((pc' = "cleanup") <=> quit)]_vars

\* main returned 0 after Escape and one more event handled behind it
C10_Witness ==
  /\ pc = "exit" /\ exitStatus = "EXIT_SUCCESS"
  /\ \E i \in DOMAIN log :
       /\ log[i] = EventEntry("KEYDOWN", "ESCAPE")
       /\ \E j \in Ops("Draw") : j > i

=============================================================================
